---------------------------- MODULE Spec2Model ----------------------------
(***************************************************************************)
(* A model of the document structurer (src/app.py): a Streamlit script     *)
(* that reads the text of an uploaded PDF (get_pdf_text), sends it to a    *)
(* hosted model (process_document), turns the returned entries into a      *)
(* DataFrame and renders it as a spreadsheet (create_formatted_excel).     *)
(*                                                                         *)
(* Streamlit runs the whole script again on every interaction; what a run  *)
(* puts on the page is the sequence `shown`.  A press of the button is a   *)
(* run that goes through the try block, modelled one blocking stage at a   *)
(* time (pc); the widgets are touched only between runs.  A text is a      *)
(* sequence of characters; a str / Optional[str] field of a DataPoint is a *)
(* string, with None for Python's None.                                    *)
(***************************************************************************)
EXTENDS Naturals, Sequences, FiniteSets

VARIABLES
    api_key,        \* st.text_input("OpenAI API Key"): "" until it is entered
    uploaded_file,  \* st.file_uploader(...): NoFile or a PDF
    pc,             \* where the script is: "idle" between runs
    shown,          \* what the current run has put on the page, in order
    raw_text,       \* Step 1: the outcome of get_pdf_text
    result,         \* Step 2: the outcome of process_document
    df,             \* Step 3: the DataFrame
    excel_data,     \* Step 5: the outcome of create_formatted_excel
    stages,         \* the stages the current run has executed, with their outcome
    requests        \* outbound model requests the current run has made

vars == <<api_key, uploaded_file, pc, shown, raw_text, result, df, excel_data,
          stages, requests>>

---------------------------------------------------------------------------
(* Bounds of the model *)

MaxPages == 2

MaxEntries == 2

MaxCols == 4

---------------------------------------------------------------------------
(* Values *)

NL == "\n"

None == "<None>"

Blank == "<blank>"

RECURSIVE SeqsUpTo(_, _)
SeqsUpTo(S, n) ==
    IF n = 0 THEN {<<>>}
    ELSE LET shorter == SeqsUpTo(S, n - 1)
         IN  shorter \cup {Append(s, x) : s \in {t \in shorter : Len(t) = n - 1}, x \in S}

\* What page.extract_text() returns: nothing (a page without extractable text),
\* one line, an empty line, two lines.
PageTexts == {<<>>, <<"a">>, <<NL>>, <<"a", NL, "b">>}

NoFile == [present |-> FALSE, readable |-> FALSE, pages |-> <<>>]

UnreadablePdf == [present |-> TRUE, readable |-> FALSE, pages |-> <<>>]

PdfFiles ==
    {UnreadablePdf} \cup
    {[present |-> TRUE, readable |-> TRUE, pages |-> p] : p \in SeqsUpTo(PageTexts, MaxPages)}

ApiKeys == {"", "sk-valid", "sk-invalid"}

DataPoint == [key : {"k"}, value : {"v", "w"}, comments : {None, "", "c"}]

EntryLists == SeqsUpTo(DataPoint, MaxEntries)

ExtractedData(entries) == [ok |-> TRUE, entries |-> entries]

Raised == [ok |-> FALSE, entries |-> <<>>]

Schema == <<"key", "value", "comments">>

---------------------------------------------------------------------------
(* get_pdf_text: PdfReader(uploaded_file) raises on a stream it cannot     *)
(* read; the loop adds each page's text and a newline, and runs zero times *)
(* for a document without pages.                                           *)

RECURSIVE ExtractLoop_NoSeparator(_, _, _)
ExtractLoop_NoSeparator(pages, i, text) ==
    IF i > Len(pages) THEN text
    ELSE ExtractLoop_NoSeparator(pages, i + 1, text \o pages[i])

RECURSIVE ExtractLoop(_, _, _)
ExtractLoop(pages, i, text) ==
    IF i > Len(pages) THEN text
    ELSE ExtractLoop(pages, i + 1, text \o pages[i] \o <<NL>>)

get_pdf_text_RejectEmpty(file) ==
    IF ~file.readable \/ file.pages = <<>> THEN [ok |-> FALSE, text |-> <<>>]
    ELSE [ok |-> TRUE, text |-> ExtractLoop(file.pages, 1, <<>>)]

get_pdf_text(file) ==
    IF ~file.readable THEN [ok |-> FALSE, text |-> <<>>]
    ELSE [ok |-> TRUE, text |-> ExtractLoop(file.pages, 1, <<>>)]

---------------------------------------------------------------------------
(* process_document: one chain.invoke, whose answer the model does not     *)
(* decide.  A key the provider rejects always fails.  ChatOpenAI(...) is   *)
(* built without max_retries, so the client keeps its default of two       *)
(* retries: an attempt that ends in a connection error, a timeout, a 408,  *)
(* 409, 429 or 5xx is sent again by the client itself, and one invoke      *)
(* sends between one and MaxRetries + 1 requests before it returns or      *)
(* raises.  The same client is built whatever the key: an attempt with a   *)
(* key the provider would reject can end in a connection error or a        *)
(* timeout as well and is then sent again, before any 401 is seen.         *)

MaxRetries == 2

ModelOutcomes(key, text) ==
    IF key = "sk-valid" THEN {Raised} \cup {ExtractedData(e) : e \in EntryLists}
    ELSE {Raised}

RequestsSent == 1..(MaxRetries + 1)

---------------------------------------------------------------------------
(* Step 3: [item.dict() for item in result.entries], pd.DataFrame(...)     *)

DataFrame(data_dicts) ==
    [columns |-> IF data_dicts = <<>> THEN <<>> ELSE Schema,
     rows    |-> [i \in 1..Len(data_dicts) |->
                    <<data_dicts[i].key, data_dicts[i].value, data_dicts[i].comments>>]]

---------------------------------------------------------------------------
(* create_formatted_excel.  dataframe.to_excel(index=False) writes the     *)
(* column names as row 0 and one row per record, None as the empty string  *)
(* (na_rep), and the writer leaves a cell with the empty string unwritten; *)
(* a frame without columns writes nothing.  The loop over                  *)
(* dataframe.columns.values then rewrites row 0 with the header format.    *)
(* No line of the function looks at which columns the frame has.  The      *)
(* writer can raise on the data it is given (a sheet beyond the format's   *)
(* size, a cell it cannot encode): the environment decides, and only when  *)
(* there are rows to write.                                                *)

Cell(v) == IF v = None \/ v = "" THEN Blank ELSE v

to_excel(dataframe) ==
    IF dataframe.columns = <<>> THEN <<>>
    ELSE <<dataframe.columns>> \o
         [i \in 1..Len(dataframe.rows) |->
            [j \in 1..Len(dataframe.columns) |-> Cell(dataframe.rows[i][j])]]

WriteHeaders(sheet, columns) ==
    IF columns = <<>> THEN sheet ELSE [sheet EXCEPT ![1] = columns]

WriterOutcomes(dataframe) ==
    IF dataframe.rows = <<>> THEN {TRUE} ELSE BOOLEAN

create_formatted_excel_SchemaCheck(dataframe, writer_ok) ==
    IF ~writer_ok \/ dataframe.columns # Schema THEN [ok |-> FALSE, sheet |-> <<>>]
    ELSE [ok |-> TRUE, sheet |-> WriteHeaders(to_excel(dataframe), dataframe.columns)]

create_formatted_excel(dataframe, writer_ok) ==
    IF ~writer_ok THEN [ok |-> FALSE, sheet |-> <<>>]
    ELSE [ok |-> TRUE, sheet |-> WriteHeaders(to_excel(dataframe), dataframe.columns)]

---------------------------------------------------------------------------
(* The script.  `if uploaded_file:` / `if not api_key:` shows the warning  *)
(* and offers no button; the button is offered only with a file and a key. *)
(* Inside the try block any exception ends the run in the except clause,   *)
(* which adds the error message to what the run has already shown.         *)

NoText == [ok |-> FALSE, text |-> <<>>]

NoFrame == [columns |-> <<>>, rows |-> <<>>]

NoExcel == [ok |-> FALSE, sheet |-> <<>>]

ButtonOffered_NoKeyGuard == uploaded_file.present

ButtonOffered == uploaded_file.present /\ api_key # ""

Page(file, key) ==
    IF file.present /\ key = "" THEN <<"warning">> ELSE <<>>

Stage(name, ok) == [stage |-> name, ok |-> ok]

Init ==
    /\ api_key = ""
    /\ uploaded_file = NoFile
    /\ pc = "idle"
    /\ shown = <<>>
    /\ raw_text = NoText
    /\ result = Raised
    /\ df = NoFrame
    /\ excel_data = NoExcel
    /\ stages = <<>>
    /\ requests = 0

Rerun(file, key) ==
    /\ pc' = "idle"
    /\ shown' = Page(file, key)
    /\ raw_text' = NoText
    /\ result' = Raised
    /\ df' = NoFrame
    /\ excel_data' = NoExcel
    /\ stages' = <<>>
    /\ requests' = 0

EnterApiKey(k) ==
    /\ pc = "idle"
    /\ k # api_key
    /\ api_key' = k
    /\ UNCHANGED uploaded_file
    /\ Rerun(uploaded_file, k)

SelectFile(f) ==
    /\ pc = "idle"
    /\ f # uploaded_file
    /\ uploaded_file' = f
    /\ UNCHANGED api_key
    /\ Rerun(f, api_key)

PressProcess ==
    /\ pc = "idle"
    /\ ButtonOffered
    /\ pc' = "get_text"
    /\ shown' = <<>>
    /\ raw_text' = NoText
    /\ result' = Raised
    /\ df' = NoFrame
    /\ excel_data' = NoExcel
    /\ stages' = <<>>
    /\ requests' = 0
    /\ UNCHANGED <<api_key, uploaded_file>>

\* A click on st.download_button hands over the bytes and, like every widget
\* interaction, runs the script again: st.button(...) is False in that run, the
\* try block is skipped, and success, preview and download leave the page.
DownloadOffered == \E i \in 1..Len(shown) : shown[i] = "download"

ClickDownload ==
    /\ pc = "idle"
    /\ DownloadOffered
    /\ UNCHANGED <<api_key, uploaded_file>>
    /\ Rerun(uploaded_file, api_key)

NextAfterCall_Swallow(ok) == "convert"

NextAfterCall_Retry(ok) == IF ok THEN "convert" ELSE "process"

NextAfterCall(ok) == IF ok THEN "convert" ELSE "idle"

Step1_GetText ==
    /\ pc = "get_text"
    /\ LET r == get_pdf_text(uploaded_file)
       IN  /\ raw_text' = r
           /\ stages' = Append(stages, Stage("Extractor", r.ok))
           /\ pc' = IF r.ok THEN "process" ELSE "idle"
           /\ shown' = IF r.ok THEN shown ELSE Append(shown, "error")
    /\ UNCHANGED <<api_key, uploaded_file, result, df, excel_data, requests>>

Step2_ProcessDocument ==
    /\ pc = "process"
    /\ \E out \in ModelOutcomes(api_key, raw_text.text) :
          /\ result' = out
          /\ stages' = Append(stages, Stage("Client", out.ok))
          /\ pc' = NextAfterCall(out.ok)
          /\ shown' = IF out.ok THEN shown ELSE Append(shown, "error")
    /\ \E sent \in RequestsSent : requests' = requests + sent
    /\ UNCHANGED <<api_key, uploaded_file, raw_text, df, excel_data>>

Step3_Preview ==
    /\ pc = "convert"
    /\ df' = DataFrame(result.entries)
    /\ shown' = shown \o <<"success", "preview">>
    /\ pc' = "excel"
    /\ UNCHANGED <<api_key, uploaded_file, raw_text, result, excel_data, stages, requests>>

Step5_Excel ==
    /\ pc = "excel"
    /\ \E writer_ok \in WriterOutcomes(df) :
          LET x == create_formatted_excel(df, writer_ok)
          IN  /\ excel_data' = x
              /\ stages' = Append(stages, Stage("Renderer", x.ok))
              /\ shown' = Append(shown, IF x.ok THEN "download" ELSE "error")
    /\ pc' = "idle"
    /\ UNCHANGED <<api_key, uploaded_file, raw_text, result, df, requests>>

Next ==
    \/ \E k \in ApiKeys : EnterApiKey(k)
    \/ \E f \in PdfFiles \cup {NoFile} : SelectFile(f)
    \/ PressProcess
    \/ Step1_GetText
    \/ Step2_ProcessDocument
    \/ Step3_Preview
    \/ Step5_Excel
    \/ ClickDownload

Spec == Init /\ [][Next]_vars

---------------------------------------------------------------------------
(* The renderer on its own: create_formatted_excel applied to any frame,   *)
(* whatever its columns.                                                   *)

ColumnNames == {"key", "value", "comments", "extra"}

UniformRows(columns, vs) ==
    [i \in 1..Len(vs) |-> [j \in 1..Len(columns) |-> vs[i]]]

Frames ==
    UNION {{[columns |-> c, rows |-> UniformRows(c, vs)] :
                vs \in SeqsUpTo({"v", None}, MaxEntries)} :
           c \in SeqsUpTo(ColumnNames, MaxCols)}

InitRender ==
    /\ api_key = ""
    /\ uploaded_file = NoFile
    /\ pc = "call_renderer"
    /\ shown = <<>>
    /\ raw_text = NoText
    /\ result = Raised
    /\ df \in Frames
    /\ excel_data = NoExcel
    /\ stages = <<>>
    /\ requests = 0

RenderFrame ==
    /\ pc = "call_renderer"
    /\ \E writer_ok \in WriterOutcomes(df) :
          excel_data' = create_formatted_excel(df, writer_ok)
    /\ pc' = "rendered"
    /\ UNCHANGED <<api_key, uploaded_file, shown, raw_text, result, df, stages, requests>>

SpecRender == InitRender /\ [][RenderFrame]_vars

---------------------------------------------------------------------------
(* What the properties below speak of *)

Range(s) == {s[i] : i \in 1..Len(s)}

Ran(name) == \E i \in 1..Len(stages) : stages[i].stage = name

Succeeded(name) == \E i \in 1..Len(stages) : stages[i] = Stage(name, TRUE)

Failed(name) == \E i \in 1..Len(stages) : stages[i] = Stage(name, FALSE)

StageNames == [i \in 1..Len(stages) |-> stages[i].stage]

IsPrefix(s, t) == Len(s) <= Len(t) /\ \A i \in 1..Len(s) : s[i] = t[i]

Pipeline == <<"Extractor", "Client", "Renderer">>

\* The text read back from a cell: an empty cell holds no string.
Read(c) == IF c = Blank THEN None ELSE c

\* The records read back from a sheet whose first row is the header.
ReadBack(sheet) ==
    IF sheet = <<>> THEN <<>>
    ELSE [i \in 1..(Len(sheet) - 1) |->
            [key |-> Read(sheet[i + 1][1]), value |-> Read(sheet[i + 1][2]),
             comments |-> Read(sheet[i + 1][3])]]

\* Where page i starts in the text: after the pages before it and their separators.
RECURSIVE Offset(_, _)
Offset(pages, i) ==
    IF i <= 1 THEN 0 ELSE Offset(pages, i - 1) + Len(pages[i - 1]) + 1

\* The separator-terminated segments of a text, as a reader of the text finds them.
RECURSIVE Segments(_, _)
Segments(text, current) ==
    IF text = <<>> THEN <<>>
    ELSE IF Head(text) = NL THEN <<current>> \o Segments(Tail(text), <<>>)
    ELSE Segments(Tail(text), Append(current, Head(text)))

---------------------------------------------------------------------------
\* C1 (as stated): with an empty credential every run ends in an error outcome
\* and makes no outbound request, whether or not a PDF was uploaded.
C1_Original ==
    (api_key = "" /\ pc = "idle") => ("error" \in Range(shown) /\ requests = 0)

\* C1 (amended): with an empty credential no stage runs and no outbound request
\* is made; the page shows a warning when a PDF is uploaded and nothing otherwise,
\* never an error.
C1_NoKeyNoRequest ==
    api_key = "" =>
        /\ pc = "idle"
        /\ requests = 0
        /\ stages = <<>>
        /\ shown = (IF uploaded_file.present THEN <<"warning">> ELSE <<>>)

C1_Witness ==
    api_key = "" /\ uploaded_file.present /\ uploaded_file.readable /\ shown = <<"warning">>

\* C2: a failed model call leaves no spreadsheet and no download, and a download
\* is offered only when extraction, model call and rendering all succeeded.
C2_NoPartialResult ==
    /\ Failed("Client") =>
          ~excel_data.ok /\ "download" \notin Range(shown) /\ ~Ran("Renderer")
    /\ "download" \in Range(shown) =>
          /\ stages = <<Stage("Extractor", TRUE), Stage("Client", TRUE),
                        Stage("Renderer", TRUE)>>
          /\ excel_data.ok

C2_Witness ==
    /\ pc = "idle"
    /\ api_key = "sk-valid"
    /\ Succeeded("Extractor")
    /\ Failed("Client")
    /\ shown = <<"error">>

\* C3 (as stated): a result with K records, K >= 0, renders to a sheet of exactly
\* K+1 rows, the header key, value, comments and the K records in order, 3 columns.
C3_Claim ==
    excel_data.ok =>
        LET sheet == excel_data.sheet
            K == Len(result.entries)
        IN  /\ Len(sheet) = K + 1
            /\ sheet[1] = Schema
            /\ \A i \in 1..K :
                  /\ Len(sheet[i + 1]) = 3
                  /\ sheet[i + 1][1] = result.entries[i].key
                  /\ sheet[i + 1][2] = result.entries[i].value

\* C4: an empty record list is no error: the run ends with the success message,
\* the preview and the download of an empty spreadsheet, and no error message.
C4_EmptyIsSuccess ==
    (pc = "idle" /\ Succeeded("Client") /\ result.entries = <<>>) =>
        /\ shown = <<"success", "preview", "download">>
        /\ Succeeded("Renderer")
        /\ excel_data = [ok |-> TRUE, sheet |-> <<>>]

C4_Witness ==
    /\ pc = "idle"
    /\ Succeeded("Client")
    /\ result.entries = <<>>
    /\ "download" \in Range(shown)
    /\ uploaded_file.pages # <<>>

\* C5 (as stated): when any stage fails, the error message is the only thing shown.
C5_Claim ==
    (pc = "idle" /\ \E i \in 1..Len(stages) : ~stages[i].ok) => shown = <<"error">>

\* C6 (as stated): for a PDF with zero pages get_pdf_text fails, and the model
\* call is not reached.
C6_Original ==
    (uploaded_file.present /\ uploaded_file.pages = <<>> /\ Ran("Extractor")) =>
        (Failed("Extractor") /\ ~Ran("Client") /\ pc # "process")

\* C6 (amended): get_pdf_text fails exactly when the stream cannot be read; for a
\* readable PDF with zero pages it returns the empty text and the model call is
\* reached with it.
C6_ZeroPagesEmptyText ==
    /\ Ran("Extractor") => (Failed("Extractor") <=> ~uploaded_file.readable)
    /\ (uploaded_file.readable /\ uploaded_file.pages = <<>> /\ Ran("Extractor")) =>
          /\ raw_text = [ok |-> TRUE, text |-> <<>>]
          /\ pc = "process" \/ Ran("Client")

C6_Witness ==
    /\ uploaded_file.readable
    /\ uploaded_file.pages = <<>>
    /\ Ran("Client")
    /\ requests = 1

\* C7 (as stated): the renderer fails for every column list other than exactly
\* key, value, comments.
C7_Original ==
    (pc = "rendered" /\ df.columns # Schema) => ~excel_data.ok

\* C7 (amended): the renderer checks no schema: for every column list it writes the
\* given columns as the header row followed by one row per record (nothing at all
\* for a frame without columns), and it fails only when the writer itself fails.
C7_NoSchemaCheck ==
    pc = "rendered" =>
        /\ df.rows = <<>> => excel_data.ok
        /\ excel_data.ok =>
              IF df.columns = <<>> THEN excel_data.sheet = <<>>
              ELSE /\ Len(excel_data.sheet) = Len(df.rows) + 1
                   /\ excel_data.sheet[1] = df.columns
                   /\ \A i \in 1..Len(df.rows) :
                         Len(excel_data.sheet[i + 1]) = Len(df.columns)

C7_Witness ==
    /\ pc = "rendered"
    /\ df.columns = <<"value", "extra">>
    /\ Len(df.rows) = 1
    /\ excel_data.ok
    /\ excel_data.sheet[1] = <<"value", "extra">>

\* C8 (as stated): the text of an N-page PDF consists of exactly N
\* separator-terminated segments, segment i being the text of page i.
C8_Original ==
    raw_text.ok => Segments(raw_text.text, <<>>) = uploaded_file.pages

\* C8 (amended): the text is the concatenation, in page order, of each page's text
\* followed by one newline: page i is found at its offset with a newline after it,
\* an empty page contributing only its newline; the text splits into exactly the N
\* page texts when no page's text itself contains a newline.
C8_Concatenation ==
    raw_text.ok =>
        LET pages == uploaded_file.pages
            text == raw_text.text
            N == Len(pages)
        IN  /\ Len(text) = Offset(pages, N + 1)
            /\ \A i \in 1..N :
                  /\ SubSeq(text, Offset(pages, i) + 1, Offset(pages, i) + Len(pages[i]))
                        = pages[i]
                  /\ text[Offset(pages, i) + Len(pages[i]) + 1] = NL
            /\ (\A i \in 1..N : NL \notin Range(pages[i])) =>
                  Segments(text, <<>>) = pages

C8_Witness ==
    /\ raw_text.ok
    /\ uploaded_file.pages = <<<<>>, <<"a">>>>
    /\ raw_text.text = <<NL, "a", NL>>

\* C9 (as stated): the stages of a run are a prefix of Extractor, Client, Renderer,
\* each at most once and each after the success of the one before, with at most
\* one outbound model request per action, a failed one never re-issued.
C9_Original ==
    /\ IsPrefix(StageNames, Pipeline)
    /\ \A i \in 1..Len(stages) : i < Len(stages) => stages[i].ok
    /\ requests <= 1
    /\ requests = Cardinality({i \in 1..Len(stages) : stages[i].stage = "Client"})

\* C9 (amended): the stages of a run are a prefix of Extractor, Client, Renderer,
\* each at most once and each after the success of the one before; the script
\* calls process_document at most once and never calls it again after a failure,
\* but that one call sends between 1 and MaxRetries + 1 outbound requests, the
\* client re-issuing a failed request by itself.
C9_LinearOneInvoke ==
    /\ IsPrefix(StageNames, Pipeline)
    /\ \A i \in 1..Len(stages) : i < Len(stages) => stages[i].ok
    /\ Cardinality({i \in 1..Len(stages) : stages[i].stage = "Client"}) <= 1
    /\ requests <= MaxRetries + 1
    /\ Ran("Client") <=> requests >= 1
    /\ (pc \in {"convert", "excel"}) => Succeeded("Client")
    /\ (pc = "process") => stages = <<Stage("Extractor", TRUE)>>

C9_Witness ==
    /\ pc = "idle"
    /\ stages = <<Stage("Extractor", TRUE), Stage("Client", FALSE)>>
    /\ requests = MaxRetries + 1
    /\ shown = <<"error">>

\* C10 (as stated): reading back the cells of the produced sheet gives the original
\* records' key, value and comments exactly and in order, an absent comment and an
\* empty one told apart.
C10_Claim ==
    excel_data.ok => ReadBack(excel_data.sheet) = result.entries

=============================================================================
